---- MODULE Spec2Model ----
(***************************************************************************)
(* Model of the template-synchronisation scripts of cubi devtools:         *)
(*   cubi-tools/update_metadata.py, cubi-tools/update_workflow.py,         *)
(*   cubi-tools/prototypes/update_metadata.py,                             *)
(*   cubi-tools/prototypes/update_workflow.py and update_template.py.      *)
(* SpecPrompt applies the yes/no prompt functions to operator input;       *)
(* Spec is one run of a synchronisation script over a project directory    *)
(* and a reference mirror; SpecTemplate is one run of update_template.py   *)
(* and SpecGit one run of tools/auto_git.py over a repository directory.   *)
(***************************************************************************)
EXTENDS Integers, Sequences, FiniteSets, TLC

VARIABLES
    script,           \* the script whose code is running
    args,             \* its command line: dryrun, external, metadata, source
    project,          \* the project directory: files of the target, directories
    project0,         \* the project directory when the run started
    mirror,           \* the reference mirror next to the project directory
    mirror0,          \* the reference mirror when the run started
    gitlog,           \* the git commands the run has executed
    files_to_update,  \* the list main iterates
    idx,              \* index into files_to_update of the next file
    pc,               \* position of the script
    failure,          \* the exception that ended the run, "" if none
    msg,              \* what the latest step printed last
    asker,            \* the function that asked the latest yes/no question
    answers,          \* the lines the operator typed in the latest step
    response,         \* what the latest prompt call produced
    run,              \* 1 in the first run of the script, 2 when it is run again
    history           \* per file the loop of main has handled: how it ended

vars == <<script, args, project, project0, mirror, mirror0, gitlog,
          files_to_update, idx, pc, failure, msg, asker, answers, response,
          run, history>>

\* ---------------------------------------------------------------- bounds
\* longest sequence of lines the operator types for one question
MaxAnswers == 4

\* --------------------------------------------------------------- scripts
UM == "cubi-tools/update_metadata.py"
UW == "cubi-tools/update_workflow.py"
PM == "cubi-tools/prototypes/update_metadata.py"
PW == "cubi-tools/prototypes/update_workflow.py"
UT == "update_template.py"

\* ------------------------------------------------- strings as characters
\* A line of input is a sequence of one-character strings.
LowerOf(c) ==
    CASE c = "Y" -> "y"
      [] c = "E" -> "e"
      [] c = "S" -> "s"
      [] c = "A" -> "a"
      [] c = "N" -> "n"
      [] c = "O" -> "o"
      [] c = "X" -> "x"
      [] OTHER -> c

\* str.lower()
lower(s) == [i \in 1..Len(s) |-> LowerOf(s[i])]

IsSpace(c) == c = " "

RECURSIVE lstrip(_)
lstrip(s) == IF s # <<>> /\ IsSpace(Head(s)) THEN lstrip(Tail(s)) ELSE s

RECURSIVE rstrip(_)
rstrip(s) ==
    IF s # <<>> /\ IsSpace(s[Len(s)]) THEN rstrip(SubSeq(s, 1, Len(s) - 1)) ELSE s

\* str.strip()
strip(s) == rstrip(lstrip(s))

\* the accepted tokens of the prompt functions
pos == { <<"y", "e", "s">>, <<"y">>, <<"y", "a", "y">> }
neg == { <<"n", "o">>, <<"n">>, <<"n", "a", "y">> }

\* Python's str() of a bool, and the value a function without return yields
PyBool(b) == IF b THEN "True" ELSE "False"

\* what a prompt call produced: the returned value, or the exception raised,
\* and the number of lines read from the terminal
Returned(v, n) == [ret |-> v, exc |-> "", reads |-> n]
Raised(e, n) == [ret |-> "raise", exc |-> e, reads |-> n]
\* input() is waiting for a line the operator has not typed
Waiting(n) == [ret |-> "waiting", exc |-> "", reads |-> n]

\* user_response with the attempt limit off by one: the error is raised at
\* the fourth line read
RECURSIVE user_response_UM_limit4(_, _)
user_response_UM_limit4(typed, attempt0) ==
    LET attempt == attempt0 + 1 IN
    IF Len(typed) < attempt THEN Waiting(attempt0)
    ELSE
        LET answer == lower(strip(typed[attempt])) IN
        IF attempt = 4 THEN Raised("AttributeError", attempt)
        ELSE IF ~(answer \in pos \/ answer \in neg)
             THEN user_response_UM_limit4(typed, attempt)
        ELSE IF answer \in pos \/ answer \in neg
             THEN Returned(PyBool(answer \in pos), attempt)
        ELSE Returned("None", attempt)

\* user_response with the 'return' of the recursive call missing: after the
\* re-prompt the function falls through to its end
RECURSIVE user_response_UM_noreturn(_, _)
user_response_UM_noreturn(typed, attempt0) ==
    LET attempt == attempt0 + 1 IN
    IF Len(typed) < attempt THEN Waiting(attempt0)
    ELSE
        LET answer == lower(strip(typed[attempt])) IN
        IF attempt = 3 THEN Raised("AttributeError", attempt)
        ELSE IF ~(answer \in pos \/ answer \in neg)
             THEN LET r == user_response_UM_noreturn(typed, attempt) IN
                  IF r.ret \in {"raise", "waiting"} THEN r
                  ELSE Returned("None", r.reads)
        ELSE IF answer \in pos \/ answer \in neg
             THEN Returned(PyBool(answer \in pos), attempt)
        ELSE Returned("None", attempt)

\* user_response of cubi-tools/update_metadata.py and of
\* cubi-tools/update_workflow.py (the two bodies are identical);
\* attempt0 is the parameter 'attempt' on entry
RECURSIVE user_response_UM(_, _)
user_response_UM(typed, attempt0) ==
    LET attempt == attempt0 + 1 IN
    IF Len(typed) < attempt THEN Waiting(attempt0)
    ELSE
        LET answer == lower(strip(typed[attempt])) IN
        IF attempt = 3 THEN Raised("AttributeError", attempt)
        ELSE IF ~(answer \in pos \/ answer \in neg)
             THEN user_response_UM(typed, attempt)
        ELSE IF answer \in pos \/ answer \in neg
             THEN Returned(PyBool(answer \in pos), attempt)
        ELSE Returned("None", attempt)

\* user_response of prototypes/update_metadata.py
RECURSIVE user_response_PM(_, _)
user_response_PM(typed, attempt0) ==
    LET attempt == attempt0 + 1 IN
    IF Len(typed) < attempt THEN Waiting(attempt0)
    ELSE
        LET answer == lower(strip(typed[attempt])) IN
        IF attempt >= 3 THEN Raised("RuntimeError", attempt)
        ELSE IF ~(answer \in pos \/ answer \in neg)
             THEN user_response_PM(typed, attempt)
        ELSE Returned(PyBool(answer \in pos), attempt)

\* user_response of prototypes/update_workflow.py
RECURSIVE user_response_PW(_, _)
user_response_PW(typed, attempt0) ==
    LET attempt == attempt0 + 1 IN
    IF Len(typed) < attempt THEN Waiting(attempt0)
    ELSE
        LET answer == lower(strip(typed[attempt])) IN
        IF ~(answer \in pos \/ answer \in neg)
             THEN user_response_PW(typed, attempt)
        ELSE IF attempt >= 3 THEN Raised("RuntimeError", attempt)
        ELSE Returned(PyBool(answer \in pos), attempt)

\* the inline prompt of update_file and of update_pyproject_toml in
\* update_template.py: one line is read and looked up as typed
inline_prompt(typed) ==
    IF Len(typed) < 1 THEN Waiting(0)
    ELSE
        LET typed_line == typed[1] IN
        IF typed_line \in pos THEN Returned("True", 1)
        ELSE IF typed_line \in neg THEN Returned("False", 1)
        ELSE Raised("ValueError", 1)

\* the yes/no prompt of a script, called as the script calls it
user_response(s, typed) ==
    CASE s \in {UM, UW} -> user_response_UM(typed, 0)
      [] s = PM -> user_response_PM(typed, 0)
      [] s = PW -> user_response_PW(typed, 0)
      [] s = UT -> inline_prompt(typed)

\* ----------------------------------------------------- files and contents
\* A path is a sequence of parts; a file is its bytes, a sequence of lines
\* <<key, value>>, or missing.
File(data) == [exists |-> TRUE, data |-> data]
Missing == [exists |-> FALSE, data |-> <<>>]

Parent(path) == SubSeq(path, 1, Len(path) - 1)

\* hashlib.md5(data).hexdigest(): never the empty string
md5(data) == << <<"md5", "of">> >> \o data

CITATION == <<"CITATION.md">>
LICENSE == <<"LICENSE">>
EDITORCONFIG == <<".editorconfig">>
README == <<"README.md">>
PYPROJECT == <<"pyproject.toml">>
COMMONS == <<"workflow", "rules", "commons", "00_commons.smk">>
MODULES == <<"workflow", "rules", "00_modules.smk">>
AGGREGATE == <<"workflow", "rules", "99_aggregate.smk">>
MARKER == <<"workflow", "rules", "commons", "10_constants.smk">>
GITCONFIG == <<".git", "config">>
GITHUB_CI == <<".github", "workflows", "ci.yml">>
CUBI == <<"cubi">>

MetadataScripts == {UM, PM}
WorkflowScripts == {UW, PW}
Scripts == MetadataScripts \cup WorkflowScripts

\* ------------------------------------------------------------------ TOML
\* A TOML file is a sequence of lines <<key path, value>>; a comment line
\* has the key "#".
MetadataKey == "cubi.metadata.version"
WorkflowKey == "cubi.workflow.template.version"

\* toml.load: the key/value pairs of the file in order, comments dropped
toml_load(data) == SelectSeq(data, LAMBDA l : l[1] # "#")

\* the top-level table a key path belongs to
TopTable(key) ==
    CASE key \in {"cubi.metadata.version", "cubi.workflow.template.version"} -> "cubi"
      [] key = "project.name" -> "project"
      [] OTHER -> key

\* toml.dumps: one line per key/value pair, the pairs of one top-level table
\* together, tables in the order of their first key
RECURSIVE toml_dumps(_)
toml_dumps(doc) ==
    IF doc = <<>> THEN <<>>
    ELSE LET t == TopTable(doc[1][1]) IN
         SelectSeq(doc, LAMBDA l : TopTable(l[1]) = t)
            \o toml_dumps(SelectSeq(doc, LAMBDA l : TopTable(l[1]) # t))

HasKey(doc, key) == \E i \in 1..Len(doc) : doc[i][1] = key

\* doc[key]
GetKey(doc, key) == doc[CHOOSE i \in 1..Len(doc) : doc[i][1] = key][2]

\* doc[key] = value
SetKey(doc, key, value) ==
    IF HasKey(doc, key)
    THEN [i \in 1..Len(doc) |-> IF doc[i][1] = key THEN <<key, value>> ELSE doc[i]]
    ELSE Append(doc, <<key, value>>)

\* ------------------------------------------------ the reference templates
\* The revisions of the two template repositories.
Revisions == {"main", "v1"}
VersionAt(rev) == IF rev = "main" THEN "2" ELSE "1"

TemplatePyproject(s, rev) ==
    IF s \in MetadataScripts
    THEN << <<"#", "template">>, <<"project.name", "template">>,
            <<MetadataKey, VersionAt(rev)>>, <<"build.backend", "hatch">> >>
    ELSE << <<"#", "template">>, <<"project.name", "template">>,
            <<MetadataKey, VersionAt(rev)>>, <<"build.backend", "hatch">>,
            <<WorkflowKey, VersionAt(rev)>> >>

\* the files of the template repository of script s
TemplateFiles(s) ==
    IF s \in MetadataScripts
    THEN {CITATION, LICENSE, EDITORCONFIG, PYPROJECT}
    ELSE {LICENSE, README, COMMONS, MODULES, GITCONFIG, GITHUB_CI, PYPROJECT}

\* the bytes of template file f at revision rev
TemplateData(s, rev, f) ==
    IF f = PYPROJECT THEN TemplatePyproject(s, rev)
    ELSE << <<f[Len(f)], "line 1">>, <<f[Len(f)], rev>> >>

\* the files of the template at revision rev: the older revision has no
\* .editorconfig and no README.md yet
TemplateFilesAt(s, rev) ==
    IF rev = "v1" THEN TemplateFiles(s) \ {EDITORCONFIG, README} ELSE TemplateFiles(s)

\* the checked-out tree of the mirror
RefFile(s, m, f) ==
    IF m.kind = "git" /\ f \in TemplateFilesAt(s, m.rev)
    THEN File(TemplateData(s, m.rev, f))
    ELSE Missing

\* --------------------------------------------------------------- prompts
NoCall == [ret |-> "", exc |-> "", reads |-> 0]

\* the lines an operator may type in a run
RunAnswers == { <<"y">>, <<"N", "o">>, <<"x">> }

StreamsOver(A) == UNION { [1..n -> A] : n \in 1..MaxAnswers }

\* what the operator types for one question of script s: lines until the
\* prompt function returns or raises
RunStreams(s) ==
    { t \in StreamsOver(RunAnswers) :
        LET r == user_response(s, t) IN r.ret # "waiting" /\ r.reads = Len(t) }

\* ------------------------------------------------------------------- git
GitCmd(cmd, cwd, arg) == [cmd |-> cmd, cwd |-> cwd, arg |-> arg]

NoMirror == [kind |-> "absent", rev |-> "", pulled |-> FALSE]

\* git pull --all -q in the mirror directory
GitPull(m) == IF m.kind = "git" THEN [m EXCEPT !.pulled = TRUE] ELSE m

\* git checkout <rev> -q in the mirror directory: the mirror and stderr
GitCheckout(m, rev) ==
    IF m.kind # "git" THEN [mirror |-> m, stderr |-> "fatal:"]
    ELSE IF rev \in Revisions THEN [mirror |-> [m EXCEPT !.rev = rev], stderr |-> ""]
    ELSE [mirror |-> m, stderr |-> "error:"]

\* the branches of the project's own repository
ProjectBranches == {"main", "feature"}

\* --------------------------------------------------- the project directory
\* the directory the files are compared and copied in
Target(s, a) == IF s \in MetadataScripts /\ a.external THEN CUBI ELSE <<>>

\* the names main may compare, and the marker file of the workflow scripts
LocalNames(s) ==
    IF s \in MetadataScripts
    THEN {CITATION, LICENSE, EDITORCONFIG, PYPROJECT}
    ELSE {LICENSE, README, COMMONS, GITHUB_CI, PYPROJECT, MARKER}

RECURSIVE Prefixes(_)
Prefixes(path) ==
    IF Len(path) = 0 THEN {} ELSE {path} \cup Prefixes(Parent(path))

\* the directories of a set of file paths
DirsOf(paths) == UNION { Prefixes(Parent(f)) : f \in paths }

\* is the directory that holds file f of the target present
HasParent(s, a, p, f) ==
    LET d == Target(s, a) \o Parent(f) IN d = <<>> \/ d \in p.dirs

LocalPyprojects(s) ==
    IF s \in MetadataScripts
    THEN { Missing,
           File(<< <<"#", "mine">>, <<MetadataKey, "2">>, <<"project.name", "mine">> >>),
           File(<< <<MetadataKey, "1">>, <<"project.name", "mine">> >>) }
    ELSE { Missing,
           File(<< <<"#", "mine">>, <<MetadataKey, "2">>, <<"project.name", "mine">>,
                   <<WorkflowKey, "2">> >>),
           File(<< <<MetadataKey, "1">>, <<"project.name", "mine">>,
                   <<WorkflowKey, "2">> >>),
           File(<< <<MetadataKey, "2">>, <<"project.name", "mine">>,
                   <<WorkflowKey, "1">> >>) }

\* the content of file f of the project when a run starts: the template's
\* at main or none for a whole file, py for pyproject.toml
LocalFile(s, f, present, py) ==
    IF f = PYPROJECT THEN py
    ELSE IF ~present THEN Missing
    ELSE IF f = MARKER THEN File(<< <<"10_constants.smk", "mine">> >>)
    ELSE File(TemplateData(s, "main", f))

LocalDirs(s) ==
    IF s \in MetadataScripts THEN { {}, {CUBI} }
    ELSE { {}, DirsOf({COMMONS, GITHUB_CI}) }

Sources == {"main", "v1", "nope"}

Mirrors ==
    { NoMirror,
      [kind |-> "git", rev |-> "main", pulled |-> FALSE],
      [kind |-> "notgit", rev |-> "", pulled |-> FALSE] }

\* the project directories a run of s may start from: a file exists only in
\* an existing directory, and the directory .github/workflows, which git
\* does not keep when empty, only with its file
Projects(s, a) ==
    { p \in { [files |-> [f \in LocalNames(s) |-> LocalFile(s, f, present[f], py)],
               dirs |-> d,
               head |-> "feature"] :
                 present \in [LocalNames(s) -> BOOLEAN],
                 py \in LocalPyprojects(s),
                 d \in LocalDirs(s) } :
        /\ \A f \in LocalNames(s) : p.files[f].exists => HasParent(s, a, p, f)
        /\ s \in WorkflowScripts =>
              (Parent(GITHUB_CI) \in p.dirs => p.files[GITHUB_CI].exists)
        /\ s \in MetadataScripts /\ ~a.external => p.dirs = {} }

Args(s) ==
    { a \in [dryrun : BOOLEAN, external : BOOLEAN, metadata : BOOLEAN, source : Sources] :
        /\ s \in MetadataScripts => ~a.metadata
        /\ s \in WorkflowScripts => ~a.external }

\* ------------------------------------------------- comparing and copying
\* get_local_checksum looking at a path that is not the local file's
get_local_checksum_nofile(local) == <<>>

\* get_local_checksum: the MD5 of the local file, "" when it does not exist
get_local_checksum(local) == IF local.exists THEN md5(local.data) ELSE <<>>

\* calculate_md5_checksum of the prototypes, used for both sides
calculate_md5_checksum(file) == IF file.exists THEN md5(file.data) ELSE <<>>

\* get_ref_checksum: open() of a missing file raises
get_ref_checksum(ref) ==
    IF ref.exists THEN [exc |-> "", sum |-> md5(ref.data)]
    ELSE [exc |-> "FileNotFoundError", sum |-> <<>>]

\* what a step of the loop of main leaves behind: the files of the target,
\* how the call ended (ok, raise, killed), what was printed and asked
Outcome(files, status, exc, message, who, typed, r) ==
    [files |-> files, status |-> status, exc |-> exc, msg |-> message,
     asker |-> who, answers |-> typed, response |-> r]

Quiet(p, message) == Outcome(p.files, "ok", "", message, "", <<>>, NoCall)

\* Writing data over file f of the target (shutil.copyfile, or open(f, "w")
\* and write): the file is truncated and filled; the call completes, or the
\* process is terminated when k lines are written.
WriteFile(s, a, p, f, data, message, who, typed, r) ==
    IF ~HasParent(s, a, p, f)
    THEN { Outcome(p.files, "raise", "FileNotFoundError", "", who, typed, r) }
    ELSE { Outcome([p.files EXCEPT ![f] = File(data)], "ok", "", message, who, typed, r) }
         \cup
         { Outcome([p.files EXCEPT ![f] = File(SubSeq(data, 1, k))], "killed", "",
                   "", who, typed, r) : k \in 0..(Len(data) - 1) }

\* shutil.copyfile(ref, local)
CopyFile(s, a, p, ref, f, message, who, typed, r) ==
    IF ~ref.exists
    THEN { Outcome(p.files, "raise", "FileNotFoundError", "", who, typed, r) }
    ELSE WriteFile(s, a, p, f, ref.data, message, who, typed, r)

\* update_file of the four scripts for file f of the list
update_file(s, a, p, m, f) ==
    LET local == p.files[f]
        ref == RefFile(s, m, f)
        local_sum == IF s \in {UM, UW} THEN get_local_checksum(local)
                     ELSE calculate_md5_checksum(local)
        ref_sum == IF s \in {UM, UW} THEN get_ref_checksum(ref).sum
                   ELSE calculate_md5_checksum(ref)
        Asked(typed) ==
            LET r == user_response(s, typed) IN
            IF r.ret = "raise"
            THEN { Outcome(p.files, "raise", r.exc, "", "update_file", typed, r) }
            ELSE IF r.ret = "True"
            THEN CopyFile(s, a, p, ref, f, "was updated", "update_file", typed, r)
            ELSE { Outcome(p.files, "ok", "", "was NOT updated", "update_file", typed, r) }
    IN
    IF s \in {UM, UW} /\ get_ref_checksum(ref).exc # ""
    THEN { Outcome(p.files, "raise", get_ref_checksum(ref).exc, "", "", <<>>, NoCall) }
    ELSE IF local_sum # ref_sum
    THEN IF a.dryrun
         THEN { Quiet(p, "would be updated") }
         ELSE UNION { Asked(typed) : typed \in RunStreams(s) }
    ELSE { Quiet(p, "is up-to-date") }

\* the comparison taking any difference of the two documents for a
\* difference of the versions
compare_versions_wholedoc(s, local, ref) ==
    [exc |-> "",
     differ |-> toml_load(ref.data) # toml_load(local.data),
     doc |-> SetKey(toml_load(local.data), MetadataKey,
                    GetKey(toml_load(ref.data), MetadataKey))]

\* compare_pyproject_versions putting only the metadata version into the
\* document it returns
compare_versions_metadata_only(s, local, ref) ==
    [exc |-> "",
     differ |-> \E k \in {MetadataKey, WorkflowKey} :
                    HasKey(toml_load(ref.data), k)
                    /\ GetKey(toml_load(ref.data), k) # GetKey(toml_load(local.data), k),
     doc |-> SetKey(toml_load(local.data), MetadataKey,
                    GetKey(toml_load(ref.data), MetadataKey))]

\* compare_metadata_versions taking the reference document as the base
compare_versions_refbase(s, local, ref) ==
    [exc |-> "",
     differ |-> GetKey(toml_load(ref.data), MetadataKey)
                    # GetKey(toml_load(local.data), MetadataKey),
     doc |-> toml_load(ref.data)]

\* compare_metadata_versions, get_metadata_versions (one key) and
\* compare_pyproject_versions, get_pyproject_versions (two keys): the
\* versions of both sides and the local document with the reference's versions
compare_versions(s, local, ref) ==
    LET keys == IF s \in MetadataScripts THEN <<MetadataKey>>
                ELSE <<MetadataKey, WorkflowKey>>
        template_doc == toml_load(ref.data)
        project_doc == toml_load(local.data)
        with_metadata == SetKey(project_doc, MetadataKey, GetKey(template_doc, MetadataKey))
    IN
    IF ~ref.exists \/ ~local.exists
    THEN [exc |-> "FileNotFoundError", differ |-> FALSE, doc |-> <<>>]
    ELSE IF \E i \in 1..Len(keys) :
                ~HasKey(template_doc, keys[i]) \/ ~HasKey(project_doc, keys[i])
    THEN [exc |-> "KeyError", differ |-> FALSE, doc |-> <<>>]
    ELSE [exc |-> "",
          differ |-> \E i \in 1..Len(keys) :
                        GetKey(template_doc, keys[i]) # GetKey(project_doc, keys[i]),
          doc |-> IF s \in MetadataScripts THEN with_metadata
                  ELSE SetKey(with_metadata, WorkflowKey, GetKey(template_doc, WorkflowKey))]

\* update_pyproject_toml of the four scripts
update_pyproject_toml(s, a, p, m) ==
    LET local == p.files[PYPROJECT]
        ref == RefFile(s, m, PYPROJECT)
        comparison == compare_versions(s, local, ref)
        who == "update_pyproject_toml"
        AskedAdd(typed) ==
            LET r == user_response(s, typed) IN
            IF r.ret = "raise"
            THEN { Outcome(p.files, "raise", r.exc, "", who, typed, r) }
            ELSE IF r.ret = "True"
            THEN CopyFile(s, a, p, ref, PYPROJECT, "was added", who, typed, r)
            ELSE { Outcome(p.files, "ok", "", "was NOT added", who, typed, r) }
        AskedUpdate(typed) ==
            LET r == user_response(s, typed) IN
            IF r.ret = "raise"
            THEN { Outcome(p.files, "raise", r.exc, "", who, typed, r) }
            ELSE IF r.ret = "True"
            THEN WriteFile(s, a, p, PYPROJECT, toml_dumps(comparison.doc),
                           "was updated", who, typed, r)
            ELSE { Outcome(p.files, "ok", "", "was NOT updated", who, typed, r) }
    IN
    IF ~local.exists
    THEN IF a.dryrun
         THEN { Quiet(p, "would have been added") }
         ELSE UNION { AskedAdd(typed) : typed \in RunStreams(s) }
    ELSE IF comparison.exc # ""
    THEN { Outcome(p.files, "raise", comparison.exc, "", "", <<>>, NoCall) }
    ELSE IF comparison.differ
    THEN IF a.dryrun
         THEN { Quiet(p, "would have been updated") }
         ELSE UNION { AskedUpdate(typed) : typed \in RunStreams(s) }
    ELSE { Quiet(p, "is up-to-date") }

\* ------------------------------------------------------- the file list
\* the order in which the file system lists the files of the template
ScanOrder == <<GITCONFIG, GITHUB_CI, LICENSE, README, PYPROJECT, COMMONS, MODULES>>

\* template_dir.rglob("*"), files only, relative to the template
rglob_files(s, m) == SelectSeq(ScanOrder, LAMBDA f : RefFile(s, m, f).exists)

\* ".git/" in item, for a relative file path
InGitDir(f) == \E i \in 1..(Len(f) - 1) : f[i] = ".git"

\* ".git" in item, for one part of a directory path
ContainsDotGit(part) == part \in {".git", ".github"}

excluded_files == {PYPROJECT, MODULES, AGGREGATE}
metadata_files == {CITATION, LICENSE, EDITORCONFIG}

\* fast_scandir over the template: every directory below it
fast_scandir(s, m) == DirsOf({ f \in TemplateFiles(s) : RefFile(s, m, f).exists })

\* find_all_subdir_in_branch of the prototype
find_all_subdir_in_branch(s, m) ==
    { d \in fast_scandir(s, m) : \A i \in 1..Len(d) : d[i] # ".git" }

\* update_file_list without the exclusion of the project specific files and
\* without the append of pyproject.toml
update_file_list_noexclude(s, a, m) ==
    [files |-> SelectSeq(rglob_files(s, m), LAMBDA f : ~InGitDir(f)),
     subfolders |-> find_all_subdir_in_branch(s, m)]

\* update_file_list: the files to update and the directories of the template
update_file_list(s, a, m) ==
    LET workflow_files ==
            SelectSeq(rglob_files(s, m),
                      LAMBDA f : f \notin excluded_files /\ ~InGitDir(f))
                \o <<PYPROJECT>>
        subfolders ==
            IF s = UW
            THEN { d \in fast_scandir(s, m) : \A i \in 1..Len(d) : ~ContainsDotGit(d[i]) }
            ELSE find_all_subdir_in_branch(s, m)
        files ==
            IF a.dryrun
            THEN IF a.metadata THEN <<LICENSE, COMMONS, PYPROJECT>>
                 ELSE <<README, COMMONS, PYPROJECT>>
            ELSE IF a.metadata THEN workflow_files
                 ELSE SelectSeq(workflow_files, LAMBDA f : f \notin metadata_files)
    IN [files |-> files, subfolders |-> subfolders]

\* ------------------------------------------------------------------ main
Init ==
    /\ script \in Scripts
    /\ args \in Args(script)
    /\ project \in Projects(script, args)
    /\ project0 = project
    /\ mirror \in Mirrors
    /\ mirror0 = mirror
    /\ gitlog = <<>>
    /\ files_to_update = <<>>
    /\ idx = 1
    /\ pc = "main"
    /\ failure = ""
    /\ msg = ""
    /\ asker = ""
    /\ answers = <<>>
    /\ response = NoCall
    /\ run = 1
    /\ history = <<>>

Fail(e) == pc' = "failed" /\ failure' = e

NoPrompt == asker' = "" /\ answers' = <<>> /\ response' = NoCall

\* external_repo, define_metadata_target: the target directory is created
\* in a live run
external_repo(a, p) ==
    IF ~a.dryrun /\ a.external THEN [p EXCEPT !.dirs = @ \cup {CUBI}] ELSE p

\* main of the metadata scripts up to the call of clone
MainTarget ==
    /\ pc = "main"
    /\ script \in MetadataScripts
    /\ project' = external_repo(args, project)
    /\ pc' = "clone"
    /\ msg' = "Metadata files will be updated in"
    /\ NoPrompt
    /\ UNCHANGED <<run, history, script, args, project0, mirror, mirror0, gitlog,
                   files_to_update, idx, failure>>

\* main of the workflow scripts going on to clone whatever the operator
\* answers to the confirmation question
MainMarker_ignores ==
    /\ pc = "main"
    /\ script \in WorkflowScripts
    /\ IF project.files[MARKER].exists
       THEN /\ pc' = "clone"
            /\ NoPrompt
            /\ UNCHANGED failure
       ELSE \E typed \in RunStreams(script) :
                LET r == user_response(script, typed) IN
                /\ asker' = "main"
                /\ answers' = typed
                /\ response' = r
                /\ IF r.ret = "raise" THEN Fail(r.exc)
                   ELSE pc' = "clone" /\ UNCHANGED failure
    /\ msg' = "Project directory set as"
    /\ UNCHANGED <<run, history, script, args, project, project0, mirror, mirror0, gitlog,
                   files_to_update, idx>>

\* main of the workflow scripts up to the call of clone: the project must
\* hold the marker file or the operator must confirm
MainMarker ==
    /\ pc = "main"
    /\ script \in WorkflowScripts
    /\ IF project.files[MARKER].exists
       THEN /\ pc' = "clone"
            /\ NoPrompt
            /\ UNCHANGED failure
       ELSE \E typed \in RunStreams(script) :
                LET r == user_response(script, typed) IN
                /\ asker' = "main"
                /\ answers' = typed
                /\ response' = r
                /\ IF r.ret = "raise" THEN Fail(r.exc)
                   ELSE IF r.ret = "True" THEN pc' = "clone" /\ UNCHANGED failure
                   ELSE Fail(IF script = UW THEN "NameError" ELSE "SystemExit")
    /\ msg' = "Project directory set as"
    /\ UNCHANGED <<run, history, script, args, project, project0, mirror, mirror0, gitlog,
                   files_to_update, idx>>

\* the exception the scripts raise for a failed git command
GitError(s) == IF s \in {UM, UW} THEN "AssertionError" ELSE "FileNotFoundError"

\* git pull and git checkout of an existing mirror (git_pull_template)
git_pull_template(m, branch) == GitCheckout(GitPull(m), branch)

\* main after clone returned: the metadata scripts set their fixed list
Cloned ==
    /\ pc' = IF script \in MetadataScripts THEN "files" ELSE "list"
    /\ files_to_update' = IF script \in MetadataScripts
                          THEN <<CITATION, LICENSE, EDITORCONFIG, PYPROJECT>>
                          ELSE files_to_update
    /\ UNCHANGED failure

\* clone
Clone ==
    /\ pc = "clone"
    /\ IF mirror.kind # "absent"
       THEN LET r == git_pull_template(mirror, args.source) IN
            /\ mirror' = r.mirror
            /\ gitlog' = gitlog \o << GitCmd("pull", "mirror", "--all"),
                                      GitCmd("checkout", "mirror", args.source) >>
            /\ project' = project
            /\ IF r.stderr = "" THEN Cloned
               ELSE Fail(GitError(script)) /\ UNCHANGED files_to_update
       ELSE IF args.dryrun
       THEN /\ Fail(IF script \in {UM, UW} THEN "NameError" ELSE "FileNotFoundError")
            /\ UNCHANGED <<mirror, gitlog, project, files_to_update>>
       ELSE \E reachable \in BOOLEAN :
            LET cloned == [kind |-> "git", rev |-> "main", pulled |-> FALSE] IN
            IF ~reachable
            THEN /\ gitlog' = Append(gitlog, GitCmd("clone", "target", ""))
                 /\ Fail(GitError(script))
                 /\ UNCHANGED <<mirror, project, files_to_update>>
            ELSE IF script = UW
            THEN /\ gitlog' = gitlog \o << GitCmd("clone", "target", ""),
                                           GitCmd("checkout", "project", args.source) >>
                 /\ mirror' = cloned
                 /\ project' = [project EXCEPT !.head =
                                   IF args.source \in ProjectBranches
                                   THEN args.source ELSE @]
                 /\ Cloned
            ELSE /\ gitlog' = gitlog \o << GitCmd("clone", "target", ""),
                                           GitCmd("checkout", "mirror", args.source) >>
                 /\ mirror' = GitCheckout(cloned, args.source).mirror
                 /\ project' = project
                 /\ Cloned
    /\ msg' = ""
    /\ NoPrompt
    /\ UNCHANGED <<run, history, script, args, project0, mirror0, idx>>

\* main of the workflow scripts: the file list and the directories
MakeDirs ==
    /\ pc = "list"
    /\ LET info == update_file_list(script, args, mirror) IN
       /\ files_to_update' = info.files
       /\ project' = [project EXCEPT !.dirs = @ \cup info.subfolders]
    /\ pc' = "files"
    /\ msg' = ""
    /\ NoPrompt
    /\ UNCHANGED <<run, history, script, args, project0, mirror, mirror0, gitlog, idx, failure>>

\* how the handling of one file ended, from what the call printed
Ended(o) ==
    CASE o.status = "raise" -> "failed"
      [] o.status = "killed" -> "killed"
      [] o.msg = "is up-to-date" -> "up-to-date"
      [] o.msg \in {"was updated", "was added"} -> "applied"
      [] o.msg \in {"was NOT updated", "was NOT added"} -> "skipped"
      [] OTHER -> "would be applied"

\* the loop of main staying at a file the operator declined
Apply_again(o) ==
    /\ project' = [project EXCEPT !.files = o.files]
    /\ history' = Append(history, [run |-> run, file |-> files_to_update[idx],
                                   ended |-> Ended(o)])
    /\ msg' = o.msg
    /\ asker' = o.asker
    /\ answers' = o.answers
    /\ response' = o.response
    /\ IF o.status = "ok"
       THEN /\ pc' = "files"
            /\ idx' = IF Ended(o) = "skipped" /\ Len(history) < 5 THEN idx ELSE idx + 1
            /\ UNCHANGED failure
       ELSE IF o.status = "raise" THEN Fail(o.exc) /\ UNCHANGED idx
       ELSE pc' = "killed" /\ UNCHANGED <<idx, failure>>
    /\ UNCHANGED <<run, script, args, project0, mirror, mirror0, gitlog, files_to_update>>

\* the loop of main restoring the files of the project when a call raises
Apply_rollback(o) ==
    /\ project' = [project EXCEPT !.files = IF o.status = "raise"
                                            THEN project0.files ELSE o.files]
    /\ history' = Append(history, [run |-> run, file |-> files_to_update[idx],
                                   ended |-> Ended(o)])
    /\ msg' = o.msg
    /\ asker' = o.asker
    /\ answers' = o.answers
    /\ response' = o.response
    /\ IF o.status = "ok" THEN pc' = "files" /\ idx' = idx + 1 /\ UNCHANGED failure
       ELSE IF o.status = "raise" THEN Fail(o.exc) /\ UNCHANGED idx
       ELSE pc' = "killed" /\ UNCHANGED <<idx, failure>>
    /\ UNCHANGED <<run, script, args, project0, mirror, mirror0, gitlog, files_to_update>>

\* the loop of main: one file of the list
Apply(o) ==
    /\ project' = [project EXCEPT !.files = o.files]
    /\ history' = Append(history, [run |-> run, file |-> files_to_update[idx],
                                   ended |-> Ended(o)])
    /\ msg' = o.msg
    /\ asker' = o.asker
    /\ answers' = o.answers
    /\ response' = o.response
    /\ IF o.status = "ok" THEN pc' = "files" /\ idx' = idx + 1 /\ UNCHANGED failure
       ELSE IF o.status = "raise" THEN Fail(o.exc) /\ UNCHANGED idx
       ELSE pc' = "killed" /\ UNCHANGED <<idx, failure>>
    /\ UNCHANGED <<run, script, args, project0, mirror, mirror0, gitlog, files_to_update>>

UpdateFile ==
    /\ pc = "files"
    /\ idx <= Len(files_to_update)
    /\ files_to_update[idx] # PYPROJECT
    /\ \E o \in update_file(script, args, project, mirror, files_to_update[idx]) :
          Apply(o)

UpdatePyprojectToml ==
    /\ pc = "files"
    /\ idx <= Len(files_to_update)
    /\ files_to_update[idx] = PYPROJECT
    /\ \E o \in update_pyproject_toml(script, args, project, mirror) : Apply(o)

\* the end of main with the return code of git checkout main checked
Reset_checked ==
    /\ pc = "files"
    /\ idx > Len(files_to_update)
    /\ \E ok \in BOOLEAN :
          IF ok
          THEN /\ mirror' = GitCheckout(mirror, "main").mirror
               /\ pc' = "done"
               /\ msg' = "UPDATE COMPLETED!"
               /\ UNCHANGED failure
          ELSE /\ mirror' = mirror
               /\ Fail("CalledProcessError")
               /\ msg' = ""
    /\ gitlog' = Append(gitlog, GitCmd("checkout", "mirror", "main"))
    /\ NoPrompt
    /\ UNCHANGED <<run, history, script, args, project, project0, mirror0,
                   files_to_update, idx>>

\* the end of main: git checkout main in the mirror, its return code not
\* looked at (check=False), then the completion message; the checkout
\* switches the mirror or fails and leaves it
Reset ==
    /\ pc = "files"
    /\ idx > Len(files_to_update)
    /\ \E ok \in BOOLEAN :
          mirror' = IF ok THEN GitCheckout(mirror, "main").mirror ELSE mirror
    /\ gitlog' = Append(gitlog, GitCmd("checkout", "mirror", "main"))
    /\ pc' = "done"
    /\ msg' = "UPDATE COMPLETED!"
    /\ NoPrompt
    /\ UNCHANGED <<run, history, script, args, project, project0, mirror0, files_to_update,
                   idx, failure>>

Next ==
    \/ MainTarget
    \/ MainMarker
    \/ Clone
    \/ MakeDirs
    \/ UpdateFile
    \/ UpdatePyprojectToml
    \/ Reset

Spec == Init /\ [][Next]_vars

\* ------------------------------------------- the prompt functions alone
\* the lines an operator may type at a prompt
PromptAnswers ==
    { <<"y">>, <<"Y", "E", "S">>, <<"y", "a", "y">>, <<"n">>, <<"N", "o">>,
      <<"N", "A", "Y">>, <<"x">>, <<" ", "y", " ">> }

\* the functions that ask a yes/no question in script s
Askers(s) ==
    IF s = UT THEN {"update_file", "update_pyproject_toml"} ELSE {"user_response"}

InitPrompt ==
    /\ script \in Scripts \cup {UT}
    /\ asker \in Askers(script)
    /\ answers \in StreamsOver(PromptAnswers)
    /\ response = NoCall
    /\ pc = "prompt"
    /\ args = [dryrun |-> FALSE, external |-> FALSE, metadata |-> FALSE,
               source |-> "main"]
    /\ project = [files |-> <<>>, dirs |-> {}, head |-> ""]
    /\ project0 = project
    /\ mirror = NoMirror
    /\ mirror0 = mirror
    /\ gitlog = <<>>
    /\ files_to_update = <<>>
    /\ idx = 1
    /\ failure = ""
    /\ msg = ""
    /\ run = 1
    /\ history = <<>>

\* the prompt function is called and the operator types the lines
Ask ==
    /\ pc = "prompt"
    /\ response' = user_response(script, answers)
    /\ pc' = "answered"
    /\ UNCHANGED <<run, history, script, args, project, project0, mirror, mirror0, gitlog,
                   files_to_update, idx, failure, msg, asker, answers>>

NextPrompt == Ask

SpecPrompt == InitPrompt /\ [][NextPrompt]_vars

\* ------------------------------------------------ the script is run again
\* in the first run no question about a file was answered with no
FirstRunAllYes ==
    \A i \in 1..Len(history) : history[i].run = 1 => history[i].ended # "skipped"

\* the operator, having approved every update of a live run that completed,
\* starts the script a second time with the same command line, on the
\* project and the mirror the first run has left
Rerun ==
    /\ pc = "done"
    /\ ~args.dryrun
    /\ run = 1
    /\ FirstRunAllYes
    /\ run' = 2
    /\ pc' = "main"
    /\ project0' = project
    /\ mirror0' = mirror
    /\ gitlog' = <<>>
    /\ files_to_update' = <<>>
    /\ idx' = 1
    /\ msg' = ""
    /\ NoPrompt
    /\ UNCHANGED <<script, args, project, mirror, failure, history>>

NextRerun == Next \/ Rerun

SpecRerun == Init /\ [][NextRerun]_vars

\* ------------------------------------------------------ update_template.py
\* The script compares the files of the project directory with the files of
\* the metadata template at main, fetched from GitHub.
PYPROJECT_TEMP == <<"pyproject.toml.temp">>

TemplateNames == {CITATION, LICENSE, EDITORCONFIG, PYPROJECT, PYPROJECT_TEMP}

\* the reference file the script downloads
RemoteFile(f) == File(TemplateData(UM, "main", f))

\* git hash-object of a file: its SHA-1, the empty output when git fails
\* for a missing file
sha1(local) == IF local.exists THEN << <<"sha1", "of">> >> \o local.data ELSE <<>>

\* is_external: False without the flag; with it the function ends without a
\* return statement
is_external(external) == IF ~external THEN "False" ELSE "None"

\* the truth value Python gives the result of is_external
Truthy(v) == v = "True"

\* any(project_dir.iterdir())
NotEmpty(p) == p.dirs # {} \/ \E f \in DOMAIN p.files : p.files[f].exists

\* metadatafiles_present(project_dir, external)
metadatafiles_present(p, external) ==
    IF Truthy(external) THEN CUBI \in p.dirs /\ NotEmpty(p)
    ELSE NotEmpty(p)

\* files_updated of main: has update_file returned True in this run
files_updated ==
    \E i \in 1..Len(history) : history[i].ended = "applied"

\* the lines an operator may type at a prompt of update_template.py
TemplateAnswers == { <<l>> : l \in PromptAnswers }

InitTemplate ==
    /\ script = UT
    /\ args \in [dryrun : {FALSE}, external : BOOLEAN, metadata : {FALSE},
                  source : {"main"}]
    /\ project \in
          { [files |-> [f \in TemplateNames |->
                          IF f = PYPROJECT THEN py
                          ELSE IF f = PYPROJECT_TEMP THEN Missing
                          ELSE whole[f]],
             dirs |-> d,
             head |-> "feature"] :
              whole \in [ {CITATION, LICENSE, EDITORCONFIG} ->
                            { Missing, File(<< <<"local", "mine">> >>) } ]
                        \cup { [f \in {CITATION, LICENSE, EDITORCONFIG} |-> RemoteFile(f)] },
              py \in LocalPyprojects(UM),
              d \in { {}, {CUBI} } }
    /\ project0 = project
    /\ mirror = NoMirror
    /\ mirror0 = mirror
    /\ gitlog = <<>>
    /\ files_to_update = <<>>
    /\ idx = 1
    /\ pc = "main"
    /\ failure = ""
    /\ msg = ""
    /\ asker = ""
    /\ answers = <<>>
    /\ response = NoCall
    /\ run = 1
    /\ history = <<>>

\* clone of update_template.py: into the project directory, or into its
\* subfolder cubi, which is created first
TemplateClone(external) ==
    IF ~Truthy(external)
    THEN /\ gitlog' = Append(gitlog, GitCmd("clone", "project", "project"))
         /\ project' = [project EXCEPT !.files =
                           [f \in TemplateNames |->
                              IF f = PYPROJECT_TEMP THEN Missing ELSE RemoteFile(f)]]
    ELSE /\ gitlog' = Append(gitlog, GitCmd("clone", "cubi", "cubi"))
         /\ project' = [project EXCEPT !.dirs = @ \cup {CUBI}]

\* main of update_template.py up to the loop: the files are cloned when
\* none are present, and updated otherwise
TemplateMain ==
    /\ pc = "main"
    /\ script = UT
    /\ LET external == is_external(args.external) IN
       IF ~metadatafiles_present(project, external)
       THEN /\ TemplateClone(external)
            /\ pc' = "done"
            /\ UNCHANGED files_to_update
       ELSE /\ files_to_update' = <<CITATION, LICENSE, EDITORCONFIG, PYPROJECT>>
            /\ pc' = "files"
            /\ UNCHANGED <<gitlog, project>>
    /\ msg' = "Project directory set as"
    /\ NoPrompt
    /\ UNCHANGED <<run, history, script, args, project0, mirror, mirror0, idx, failure>>

\* one iteration of the loop of main has ended
TemplateStep(files, ended, exc, who, typed, r) ==
    /\ project' = [project EXCEPT !.files = files]
    /\ history' = Append(history, [run |-> run, file |-> files_to_update[idx],
                                   ended |-> ended])
    /\ asker' = who
    /\ answers' = typed
    /\ response' = r
    /\ msg' = ended
    /\ IF ended = "failed" THEN Fail(exc) /\ UNCHANGED idx
       ELSE /\ idx' = idx + 1
            /\ pc' = IF idx = Len(files_to_update) THEN "done" ELSE "files"
            /\ UNCHANGED failure
    /\ UNCHANGED <<run, script, args, project0, mirror, mirror0, gitlog, files_to_update>>

\* the loop of main for a whole file:
\* files_updated = files_updated or update_file(f, ...)
TemplateUpdateFile ==
    /\ pc = "files"
    /\ script = UT
    /\ idx <= Len(files_to_update)
    /\ files_to_update[idx] # PYPROJECT
    /\ LET f == files_to_update[idx]
           local_sum == sha1(project.files[f])
           ref_sum == sha1(RemoteFile(f))
       IN
       IF files_updated
       THEN TemplateStep(project.files, "not compared", "", "", <<>>, NoCall)
       ELSE IF local_sum = ref_sum
       THEN TemplateStep(project.files, "up-to-date", "", "", <<>>, NoCall)
       ELSE \E typed \in TemplateAnswers :
               LET r == inline_prompt(typed) IN
               IF r.ret = "raise"
               THEN TemplateStep(project.files, "failed", r.exc, "update_file", typed, r)
               ELSE IF r.ret = "True"
               THEN TemplateStep([project.files EXCEPT ![f] = RemoteFile(f)],
                                 "applied", "", "update_file", typed, r)
               ELSE TemplateStep(project.files, "skipped", "", "update_file", typed, r)

\* the loop of main for pyproject.toml: update_pyproject_toml is called
\* when a file was updated; the reference is downloaded to
\* pyproject.toml.temp and its version put into the local document
TemplateUpdatePyproject ==
    /\ pc = "files"
    /\ script = UT
    /\ idx <= Len(files_to_update)
    /\ files_to_update[idx] = PYPROJECT
    /\ LET who == "update_pyproject_toml"
           temp == [project.files EXCEPT ![PYPROJECT_TEMP] = RemoteFile(PYPROJECT)]
           local == project.files[PYPROJECT]
           version_new == GetKey(toml_load(RemoteFile(PYPROJECT).data), MetadataKey)
       IN
       IF ~files_updated
       THEN TemplateStep(project.files, "not compared", "", "", <<>>, NoCall)
       ELSE \E typed \in TemplateAnswers :
               LET r == inline_prompt(typed) IN
               IF r.ret = "raise"
               THEN TemplateStep(project.files, "failed", r.exc, who, typed, r)
               ELSE IF r.ret = "False"
               THEN TemplateStep(project.files, "skipped", "", who, typed, r)
               ELSE IF ~local.exists
               THEN TemplateStep(temp, "failed", "FileNotFoundError", who, typed, r)
               ELSE TemplateStep(
                        [temp EXCEPT ![PYPROJECT] =
                            File(toml_dumps(SetKey(toml_load(local.data),
                                                   MetadataKey, version_new)))],
                        "applied", "", who, typed, r)

NextTemplate ==
    \/ TemplateMain
    \/ TemplateUpdateFile
    \/ TemplateUpdatePyproject

SpecTemplate == InitTemplate /\ [][NextTemplate]_vars

\* ------------------------------------------------------- tools/auto_git.py
\* One run of auto_git.py over one repository directory: the directory that
\* git clone creates, the path of --init, or the path of --norm.
AG == "tools/auto_git.py"

KNOWN_REMOTES ==
    ("github.com" :> [name |-> "github", org |-> "core-unit-bioinformatics",
                      priority |-> 1]) @@
    ("git.hhu.de" :> [name |-> "githhu", org |-> "cubi", priority |-> 0])

\* the order in which a loop over KNOWN_REMOTES.items() visits the hosts
KnownHosts == <<"github.com", "git.hhu.de">>

\* the URL git@<host>:<user>/<repo>.git
GitUrl(host, user, repo) == [host |-> host, user |-> user, repo |-> repo]

RepoName == "repo"

\* the URLs a remote of the repository may have
KnownUrls ==
    { GitUrl("github.com", "core-unit-bioinformatics", RepoName),
      GitUrl("github.com", "someone", RepoName),
      GitUrl("git.hhu.de", "cubi", RepoName) }

\* the URLs the operator may pass to --clone
CloneUrls == KnownUrls \cup { GitUrl("gitlab.com", "someone", RepoName) }

\* the names of the remotes, in the order git remote -v lists them
RemoteOrder == <<"all", "githhu", "github", "origin">>

RemoteNames == { RemoteOrder[i] : i \in 1..Len(RemoteOrder) }

\* parse_git_url of a URL whose host is known
parse_git_url(url) ==
    [remote_url |-> url.host,
     remote_name |-> KNOWN_REMOTES[url.host].name,
     user |-> url.user,
     repo_name |-> url.repo,
     priority |-> KNOWN_REMOTES[url.host].priority,
     remote_path |-> url]

\* the assertions of parse_git_url hold
ParsesGitUrl(url) == url.host \in DOMAIN KNOWN_REMOTES

\* build_default_remote_infos for one of the presets
build_default_remote_infos(remote_name, repo_name) ==
    LET remote_url == CHOOSE h \in DOMAIN KNOWN_REMOTES :
                          KNOWN_REMOTES[h].name = remote_name
    IN parse_git_url(GitUrl(remote_url, KNOWN_REMOTES[remote_url].org, repo_name))

NoInfos == [remote_url |-> "", remote_name |-> "", user |-> "", repo_name |-> "",
            priority |-> 0, remote_path |-> GitUrl("", "", "")]

NoRemotes == [n \in {} |-> [url |-> GitUrl("", "", ""), push |-> <<>>]]

NoConfig == [k \in {"user.name", "user.email"} |-> <<>>]

\* what git does with a command in the repository directory: the directory
\* afterwards, and whether git succeeded
git(p, c) ==
    CASE c.cmd = "clone" ->
           IF p.isdir THEN [ok |-> FALSE, project |-> p]
           ELSE [ok |-> TRUE,
                 project |-> [p EXCEPT !.isdir = TRUE, !.dotgit = TRUE,
                                !.remotes = (c.arg[1] :> [url |-> c.arg[2],
                                                          push |-> <<>>])]]
      [] c.cmd = "init" ->
           IF ~p.isdir THEN [ok |-> FALSE, project |-> p]
           ELSE [ok |-> TRUE, project |-> [p EXCEPT !.dotgit = TRUE]]
      [] c.cmd = "remote -v" ->
           [ok |-> p.dotgit, project |-> p]
      [] c.cmd = "remote add" ->
           IF ~p.dotgit \/ c.arg[1] \in DOMAIN p.remotes
           THEN [ok |-> FALSE, project |-> p]
           ELSE [ok |-> TRUE,
                 project |-> [p EXCEPT !.remotes =
                                @ @@ (c.arg[1] :> [url |-> c.arg[2], push |-> <<>>])]]
      [] c.cmd = "remote rename" ->
           IF ~p.dotgit \/ c.arg[1] \notin DOMAIN p.remotes
                        \/ c.arg[2] \in DOMAIN p.remotes
           THEN [ok |-> FALSE, project |-> p]
           ELSE [ok |-> TRUE,
                 project |-> [p EXCEPT !.remotes =
                                [n \in (DOMAIN @ \ {c.arg[1]}) \cup {c.arg[2]} |->
                                   IF n = c.arg[2] THEN @[c.arg[1]] ELSE @[n]]]]
      [] c.cmd = "remote set-url --add --push" ->
           IF ~p.dotgit \/ c.arg[1] \notin DOMAIN p.remotes
           THEN [ok |-> FALSE, project |-> p]
           ELSE [ok |-> TRUE,
                 project |-> [p EXCEPT !.remotes[c.arg[1]].push = Append(@, c.arg[2])]]
      [] c.cmd = "config" ->
           IF ~p.dotgit THEN [ok |-> FALSE, project |-> p]
           ELSE [ok |-> TRUE, project |-> [p EXCEPT !.config[c.arg[1]] = c.arg[2]]]

\* the output of git remote -v: per remote its fetch line and its push lines
RemoteLines(remotes, n) ==
    LET push == IF remotes[n].push = <<>> THEN << remotes[n].url >>
                ELSE remotes[n].push
    IN << <<n, remotes[n].url, "(fetch)">> >> \o
       [i \in 1..Len(push) |-> <<n, push[i], "(push)">>]

RECURSIVE JoinLines(_)
JoinLines(ss) == IF ss = <<>> THEN <<>> ELSE Head(ss) \o JoinLines(Tail(ss))

git_remote_v(remotes) ==
    LET present == SelectSeq(RemoteOrder, LAMBDA n : n \in DOMAIN remotes)
    IN JoinLines([i \in 1..Len(present) |-> RemoteLines(remotes, present[i])])

\* the run so far, as the functions of auto_git.py thread it
Here == [project |-> project, gitlog |-> gitlog, history |-> history, exc |-> ""]

\* execute_command, called by the function by: a dry run prints the command,
\* a live run executes it and raises when git fails
execute_command(cmd, by, dry_run, st) ==
    IF st.exc # "" THEN st
    ELSE IF dry_run
    THEN [st EXCEPT !.history = Append(@, [run |-> 1, by |-> by, cmd |-> cmd,
                                            ended |-> "would execute"])]
    ELSE LET r == git(st.project, cmd) IN
         [project |-> r.project,
          gitlog |-> Append(st.gitlog, cmd),
          history |-> Append(st.history,
                             [run |-> 1, by |-> by, cmd |-> cmd,
                              ended |-> IF r.ok THEN "executed" ELSE "failed"]),
          exc |-> IF r.ok THEN "" ELSE "CalledProcessError"]

\* consecutive calls of execute_command
RECURSIVE execute_commands(_, _, _, _)
execute_commands(cmds, by, dry_run, st) ==
    IF cmds = <<>> THEN st
    ELSE execute_commands(Tail(cmds), by, dry_run,
                          execute_command(Head(cmds), by, dry_run, st))

\* the commands of set_push_targets
push_target_commands(git_infos) ==
    LET path(h) == GitUrl(h, KNOWN_REMOTES[h].org, git_infos.repo_name)
        others == SelectSeq(KnownHosts, LAMBDA h : h # git_infos.remote_url)
        primary_remote == GitUrl(git_infos.remote_url, git_infos.user,
                                 git_infos.repo_name)
    IN [i \in 1..Len(others) |->
           GitCmd("remote add", "repo",
                  <<KNOWN_REMOTES[others[i]].name, path(others[i])>>)]
       \o << GitCmd("remote add", "repo", <<"all", primary_remote>>) >>
       \o [i \in 1..Len(KnownHosts) |->
             GitCmd("remote set-url --add --push", "repo",
                    <<"all", path(KnownHosts[i])>>)]

set_push_targets(git_infos, dry_run, st) ==
    execute_commands(push_target_commands(git_infos), "set_push_targets",
                     dry_run, st)

\* get_git_id_settings: name and email of the identity file of the remote
get_git_id_settings(remote_name) ==
    << <<"user.name", <<remote_name, "name">> >>,
       <<"user.email", <<remote_name, "email">> >> >>

set_git_identity(git_infos, dry_run, st) ==
    LET settings == get_git_id_settings(git_infos.remote_name) IN
    execute_commands([i \in 1..Len(settings) |->
                         GitCmd("config", "repo", settings[i])],
                     "set_git_identity", dry_run, st)

\* the loop of norm_git over the lines of git remote -v: the rename commands
\* it issues, the remotes it collects and the exception that ends it
RECURSIVE norm_scan(_, _)
norm_scan(lines, acc) ==
    IF lines = <<>> THEN acc
    ELSE LET remote == Head(lines) IN
         IF remote[3] = "(push)" THEN norm_scan(Tail(lines), acc)
         ELSE IF remote[1] = "all" THEN norm_scan(Tail(lines), acc)
         ELSE IF ~ParsesGitUrl(remote[2])
         THEN [acc EXCEPT !.exc = "AssertionError"]
         ELSE LET remote_infos == parse_git_url(remote[2]) IN
              norm_scan(Tail(lines),
                  [acc EXCEPT
                     !.cmds = IF remote_infos.remote_name # remote[1]
                              THEN Append(@, GitCmd("remote rename", "repo",
                                              <<remote[1], remote_infos.remote_name>>))
                              ELSE @,
                     !.set_remotes = Append(@, remote_infos)])

\* sorted(set_remotes, reverse=True) has to order two entries of the same
\* priority by their second members, which are dictionaries
SortRaises(set_remotes) ==
    \E i, j \in 1..Len(set_remotes) :
        /\ set_remotes[i].priority = set_remotes[j].priority
        /\ set_remotes[i] # set_remotes[j]

\* set_remotes[0][1] after the sort
primary_of(set_remotes) ==
    LET i == CHOOSE i \in 1..Len(set_remotes) :
                 \A j \in 1..Len(set_remotes) :
                     set_remotes[i].priority >= set_remotes[j].priority
    IN set_remotes[i]

InitGit ==
    /\ script = AG
    /\ \E operation \in {"clone", "init", "norm"} :
          /\ args \in
               { [operation |-> operation, clone |-> url, init_preset |-> preset,
                  dryrun |-> dry, argv_no_all |-> noa, no_all |-> noa,
                  no_config |-> noc] :
                   url \in IF operation = "clone" THEN CloneUrls
                           ELSE {GitUrl("", "", "")},
                   preset \in {"github", "githhu"},
                   dry \in BOOLEAN, noa \in BOOLEAN, noc \in BOOLEAN }
          /\ project \in
               { [isdir |-> d, dotgit |-> g, remotes |-> r, config |-> NoConfig,
                  identities |-> ids] :
                   d \in BOOLEAN, g \in BOOLEAN,
                   r \in UNION { [S -> [url : KnownUrls, push : {<<>>}]] :
                                   S \in SUBSET RemoteNames },
                   ids \in { [isdir |-> FALSE, files |-> {}],
                             [isdir |-> TRUE, files |-> {}],
                             [isdir |-> TRUE, files |-> {"github", "githhu"}] } }
          /\ project.dotgit => project.isdir
          /\ project.remotes # NoRemotes => project.dotgit
          /\ operation # "norm" => ~project.dotgit
    /\ project0 = project
    /\ mirror = NoMirror
    /\ mirror0 = mirror
    /\ gitlog = <<>>
    /\ files_to_update = <<>>
    /\ idx = 1
    /\ pc = "parse"
    /\ failure = ""
    /\ msg = ""
    /\ asker = ""
    /\ answers = <<>>
    /\ response = NoInfos
    /\ run = 1
    /\ history = <<>>

\* a function of auto_git.py has returned git_infos or raised
GitStep(st, git_infos, next) ==
    /\ project' = st.project
    /\ gitlog' = st.gitlog
    /\ history' = st.history
    /\ IF st.exc # ""
       THEN Fail(st.exc) /\ UNCHANGED response
       ELSE pc' = next /\ response' = git_infos /\ UNCHANGED failure
    /\ UNCHANGED <<script, args, project0, mirror, mirror0, files_to_update, idx,
                   msg, asker, answers, run>>

Raise(st, e) == [st EXCEPT !.exc = IF @ = "" THEN e ELSE @]

\* parse_command_line: --norm needs an existing path, the identities folder
\* is needed unless --no-user-config was passed, and the preset githhu
\* sets no_all; argv_no_all keeps whether --no-all-target is on the
\* command line
GitParse ==
    /\ pc = "parse"
    /\ script = AG
    /\ IF args.operation = "norm" /\ ~project.isdir
       THEN Fail("FileNotFoundError") /\ UNCHANGED args
       ELSE IF ~args.no_config /\ ~project.identities.isdir
       THEN Fail("ValueError") /\ UNCHANGED args
       ELSE /\ args' = [args EXCEPT !.no_all =
                           IF args.init_preset = "githhu" THEN TRUE ELSE @]
            /\ pc' = "main"
            /\ UNCHANGED failure
    /\ UNCHANGED <<script, project, project0, mirror, mirror0, gitlog,
                   files_to_update, idx, msg, asker, answers, response, run,
                   history>>

\* clone_git
GitClone ==
    /\ pc = "main"
    /\ script = AG
    /\ args.operation = "clone"
    /\ IF ~ParsesGitUrl(args.clone)
       THEN GitStep(Raise(Here, "AssertionError"), NoInfos, "push")
       ELSE LET git_infos == parse_git_url(args.clone) IN
            GitStep(execute_command(
                        GitCmd("clone", "wd", <<git_infos.remote_name, args.clone>>),
                        "clone_git", args.dryrun, Here),
                    git_infos, "push")

\* init_git
GitInit ==
    /\ pc = "main"
    /\ script = AG
    /\ args.operation = "init"
    /\ IF project.isdir
       THEN GitStep(Raise(Here, "ValueError"), NoInfos, "push")
       ELSE LET made == [Here EXCEPT !.project.isdir = TRUE]
                git_infos == build_default_remote_infos(args.init_preset, RepoName)
                inited == execute_command(GitCmd("init", "repo", <<>>),
                                          "init_git", args.dryrun, made)
                checked == IF ~args.dryrun /\ ~inited.project.dotgit
                           THEN Raise(inited, "AssertionError") ELSE inited
            IN GitStep(execute_command(
                           GitCmd("remote add", "repo",
                                  <<args.init_preset, git_infos.remote_path>>),
                           "init_git", args.dryrun, checked),
                       git_infos, "push")

\* the assertion of main, and norm_git
GitNorm ==
    /\ pc = "main"
    /\ script = AG
    /\ args.operation = "norm"
    /\ IF ~project.dotgit
       THEN GitStep(Raise(Here, "AssertionError"), NoInfos, "push")
       ELSE LET listed == execute_command(GitCmd("remote -v", "repo", <<>>),
                                          "norm_git", FALSE, Here)
                remotes == git_remote_v(project.remotes)
                scan == norm_scan(remotes, [cmds |-> <<>>, set_remotes |-> <<>>,
                                            exc |-> ""])
                renamed == execute_commands(scan.cmds, "norm_git", args.dryrun,
                                            listed)
            IN IF remotes = <<>>
               THEN GitStep(Raise(listed, "ValueError"), NoInfos, "push")
               ELSE IF renamed.exc # "" \/ scan.exc # ""
               THEN GitStep(Raise(renamed, scan.exc), NoInfos, "push")
               ELSE IF SortRaises(scan.set_remotes)
               THEN GitStep(Raise(renamed, "TypeError"), NoInfos, "push")
               ELSE IF scan.set_remotes = <<>>
               THEN GitStep(Raise(renamed, "IndexError"), NoInfos, "push")
               ELSE GitStep(renamed, primary_of(scan.set_remotes), "push")

\* main: if not args.no_all: set_push_targets(git_infos, wd, args.dryrun)
GitPushTargets ==
    /\ pc = "push"
    /\ script = AG
    /\ IF args.no_all
       THEN GitStep(Here, response, "identity")
       ELSE GitStep(set_push_targets(response, args.dryrun, Here), response,
                    "identity")

\* main: if not args.no_config: set_git_identity(...)
GitIdentity ==
    /\ pc = "identity"
    /\ script = AG
    /\ IF args.no_config
       THEN GitStep(Here, response, "done")
       ELSE IF response.remote_name \notin project.identities.files
       THEN GitStep(Raise(Here, "FileNotFoundError"), response, "done")
       ELSE GitStep(set_git_identity(response, args.dryrun, Here), response, "done")

NextGit ==
    \/ GitParse
    \/ GitClone
    \/ GitInit
    \/ GitNorm
    \/ GitPushTargets
    \/ GitIdentity

SpecGit == InitGit /\ [][NextGit]_vars

\* ================================================================ claims
Recognized(line) == lower(strip(line)) \in pos \cup neg

\* the first three lines typed are all unrecognized
ThreeUnrecognized(typed) ==
    Len(typed) >= 3 /\ \A i \in 1..3 : ~Recognized(typed[i])

\* the position of the first recognized line, 0 if there is none
FirstRecognized(typed) ==
    IF \E i \in 1..Len(typed) : Recognized(typed[i])
    THEN CHOOSE i \in 1..Len(typed) :
            Recognized(typed[i]) /\ \A j \in 1..(i - 1) : ~Recognized(typed[j])
    ELSE 0

\* C1: in cubi-tools/update_metadata.py and cubi-tools/update_workflow.py a
\* step in which the operator answers a question with three unrecognized
\* lines ends with the prompt error after exactly three lines read, no
\* fourth line is asked for, and the step writes no file of the project.
C1_ThreeUnrecognizedRaise ==
    [][ (script \in {UM, UW} /\ ThreeUnrecognized(answers'))
        => /\ response'.ret = "raise"
           /\ response'.exc = "AttributeError"
           /\ response'.reads = 3
           /\ Len(answers') = 3
           /\ pc' = "failed"
           /\ failure' = "AttributeError"
           /\ project' = project ]_vars

\* a run that applied an earlier file and then failed at a later question
\* with three unrecognized lines
C1_Witness ==
    /\ script \in {UM, UW}
    /\ pc = "failed"
    /\ asker = "update_file"
    /\ ThreeUnrecognized(answers)
    /\ idx > 1
    /\ project.files # project0.files

\* C2: user_response allows three attempts: a recognized line typed as the
\* 1st, 2nd or 3rd is returned as the decision, and the error is raised only
\* when the 3rd line is itself unrecognized.
C2_ThirdAttemptCounts ==
    (pc = "answered" /\ script \in Scripts)
    => LET k == FirstRecognized(answers) IN
       /\ k \in 1..3 =>
             response = Returned(PyBool(lower(strip(answers[k])) \in pos), k)
       /\ response.ret = "raise" => ThreeUnrecognized(answers)

\* C3: user_response of prototypes/update_workflow.py reads at most three
\* lines for one question and then returns a decision or raises; three
\* unrecognized lines end the call with an error, without a fourth prompt.
C3_BoundedReprompt ==
    (pc = "answered" /\ script = PW)
    => /\ response.reads <= 3
       /\ Len(answers) >= 3 => response.ret # "waiting"
       /\ ThreeUnrecognized(answers) => response.ret = "raise" /\ response.reads = 3

\* C4: user_response never defaults to an answer: it returns True only when
\* the line read last is affirmative, False only when it is negative, and
\* never returns None; after an unrecognized line it asks again or raises.
C4_NoDefaultAnswer ==
    (pc = "answered" /\ script \in Scripts)
    => /\ response.ret \in {"True", "False", "raise", "waiting"}
       /\ response.ret = "True" =>
             lower(strip(answers[response.reads])) \in pos
       /\ response.ret = "False" =>
             lower(strip(answers[response.reads])) \in neg
       /\ response.ret \in {"True", "False"} =>
             \A i \in 1..(response.reads - 1) : ~Recognized(answers[i])

\* a decision returned at the second attempt, after an unrecognized line
C4_Witness ==
    /\ pc = "answered"
    /\ script = UM
    /\ response.ret = "False"
    /\ response.reads = 2
    /\ ~Recognized(answers[1])

\* C5: every yes/no prompt matches the tokens case-insensitively: the lines
\* typed yield the decision their lower-case form yields, in user_response
\* and in the inline prompts of update_template.py.
C5_CaseInsensitive ==
    pc = "answered"
    => response = user_response(script, [i \in 1..Len(answers) |-> lower(answers[i])])

\* is whole file f the same bytes in the project and in the mirror
Identical(f) ==
    /\ project.files[f].exists
    /\ RefFile(script, mirror, f).exists
    /\ project.files[f].data = RefFile(script, mirror, f).data

\* C6: the step of the loop for a whole file that is byte-identical in the
\* project and in the mirror asks nothing, copies nothing and leaves the
\* project unchanged, in dry-run and in normal mode.
C6_IdenticalNoPrompt ==
    [][ ( /\ pc = "files"
          /\ idx <= Len(files_to_update)
          /\ files_to_update[idx] # PYPROJECT
          /\ Identical(files_to_update[idx]) )
        => /\ answers' = <<>>
           /\ asker' = ""
           /\ response' = NoCall
           /\ project' = project
           /\ msg' = "is up-to-date"
           /\ pc' = "files"
           /\ idx' = idx + 1 ]_vars

\* a live run that has just reported an identical whole file as up-to-date
C6_Witness ==
    /\ pc = "files"
    /\ ~args.dryrun
    /\ idx > 1
    /\ files_to_update[idx - 1] # PYPROJECT
    /\ Identical(files_to_update[idx - 1])
    /\ project.files[files_to_update[idx - 1]] = project0.files[files_to_update[idx - 1]]
    /\ msg = "is up-to-date"
    /\ answers = <<>>

\* C7: a dry run leaves the project directory as it was: no file written,
\* no directory created.
C7_DryRunProject == args.dryrun => project = project0

\* C8: in a dry run the mirror is not touched and git is not run: a missing
\* mirror fails the run without a clone, an existing one is neither pulled
\* nor switched to another revision.
C8_DryRunMirror ==
    args.dryrun
    => /\ mirror = mirror0
       /\ mirror0.kind \in {"absent", "git"} => gitlog = <<>>
       /\ (mirror0.kind = "absent" /\ pc \notin {"main", "clone"}) => pc = "failed"

\* C9: in a dry run no operator input is requested and the prompt error is
\* never raised.
C9_DryRunNoPrompt ==
    args.dryrun
    => /\ answers = <<>>
       /\ asker = ""
       /\ failure \notin {"AttributeError", "RuntimeError"}

\* the complete content an approved update gives file f of the list
NewContent(f) ==
    IF f = PYPROJECT /\ project0.files[f].exists
    THEN File(toml_dumps(compare_versions(script, project0.files[f],
                                          RefFile(script, mirror, f)).doc))
    ELSE RefFile(script, mirror, f)

\* C10: when the process is terminated during the copy of a file or the
\* rewrite of pyproject.toml, the local file holds its complete old content
\* or the complete new content.
C10_AtomicUpdate ==
    pc = "killed"
    => LET f == files_to_update[idx] IN
       project.files[f] \in {project0.files[f], NewContent(f)}

\* the key paths of a document
Keys(doc) == { doc[i][1] : i \in 1..Len(doc) }

\* the step of the loop that rewrites an existing pyproject.toml after "yes"
RewritesPyproject ==
    /\ pc = "files"
    /\ idx <= Len(files_to_update)
    /\ files_to_update[idx] = PYPROJECT
    /\ project.files[PYPROJECT].exists
    /\ msg' = "was updated"
    /\ pc' = "files"

\* C11: in the metadata scripts the document written by an approved update
\* of an existing pyproject.toml has the key paths of the local document
\* before the update, each once and with its old value, except
\* cubi.metadata.version, which has the value of the reference; nothing
\* else of the reference document appears in it.
C11_OnlyVersionChanges ==
    [][ (script \in MetadataScripts /\ RewritesPyproject)
        => LET before == toml_load(project.files[PYPROJECT].data)
               after == toml_load(project'.files[PYPROJECT].data)
               ref == toml_load(RefFile(script, mirror, PYPROJECT).data)
           IN /\ project'.files[PYPROJECT].exists
              /\ Keys(after) = Keys(before)
              /\ Len(after) = Cardinality(Keys(after))
              /\ \A k \in Keys(before) :
                    GetKey(after, k) = IF k = MetadataKey THEN GetKey(ref, MetadataKey)
                                       ELSE GetKey(before, k)
              /\ \A f \in DOMAIN project.files :
                    f # PYPROJECT => project'.files[f] = project.files[f] ]_vars

\* a metadata run that has rewritten the local pyproject.toml: the version
\* is the reference's, the project's own name is kept
C11_Witness ==
    /\ script \in MetadataScripts
    /\ pc = "files"
    /\ msg = "was updated"
    /\ asker = "update_pyproject_toml"
    /\ project0.files[PYPROJECT].exists
    /\ GetKey(toml_load(project.files[PYPROJECT].data), MetadataKey)
          # GetKey(toml_load(project0.files[PYPROJECT].data), MetadataKey)
    /\ GetKey(toml_load(project.files[PYPROJECT].data), "project.name") = "mine"

\* does key path k of the local pyproject.toml differ from the reference's
KeyDiffers(k) ==
    GetKey(toml_load(project.files[PYPROJECT].data), k)
        # GetKey(toml_load(RefFile(script, mirror, PYPROJECT).data), k)

\* does the step change key path k of the local pyproject.toml
KeyChanges(k) ==
    GetKey(toml_load(project'.files[PYPROJECT].data), k)
        # GetKey(toml_load(project.files[PYPROJECT].data), k)

\* C12: in update_workflow.py the key paths cubi.metadata.version and
\* cubi.workflow.template.version are decided independently: one answer
\* decides one key path, so when both differ from the reference the step
\* that asked a single question changes at most one of them, and the other
\* keeps its local value in the written document.
C12_IndependentKeys ==
    [][ ( /\ script = UW
          /\ RewritesPyproject
          /\ KeyDiffers(MetadataKey)
          /\ KeyDiffers(WorkflowKey)
          /\ response'.reads = Len(answers') )
        => ~(KeyChanges(MetadataKey) /\ KeyChanges(WorkflowKey)) ]_vars

\* the steps of the run that wrote the local pyproject.toml
PyprojectWrites ==
    { i \in 1..Len(history) :
        /\ history[i].run = run
        /\ history[i].file = PYPROJECT
        /\ history[i].ended \in {"applied", "killed"} }

\* C13: a run of a workflow script writes the local pyproject.toml at most
\* once; every change of the file comes from that one write, and after the
\* completed write of an existing file both version key paths have the
\* reference's values.
C13_SingleWrite ==
    script \in WorkflowScripts
    => /\ Cardinality(PyprojectWrites) <= 1
       /\ project.files[PYPROJECT] # project0.files[PYPROJECT]
             => Cardinality(PyprojectWrites) = 1
       /\ \A i \in PyprojectWrites :
             (history[i].ended = "applied" /\ project0.files[PYPROJECT].exists
                /\ pc = "files")
             => ~KeyDiffers(MetadataKey) /\ ~KeyDiffers(WorkflowKey)

\* a run of update_workflow.py that has written both versions, which both
\* differed from the reference, in one write
C13_Witness ==
    /\ script = UW
    /\ pc = "files"
    /\ PyprojectWrites # {}
    /\ msg = "was updated"
    /\ LET before == toml_load(project0.files[PYPROJECT].data)
           after == toml_load(project.files[PYPROJECT].data)
       IN /\ GetKey(before, MetadataKey) # GetKey(after, MetadataKey)
          /\ GetKey(before, WorkflowKey) # GetKey(after, WorkflowKey)

\* the local pyproject.toml exists and its version(s) equal the reference's
VersionsEqual ==
    /\ project.files[PYPROJECT].exists
    /\ RefFile(script, mirror, PYPROJECT).exists
    /\ ~KeyDiffers(MetadataKey)
    /\ script \in WorkflowScripts => ~KeyDiffers(WorkflowKey)

\* C14: the step of the loop for pyproject.toml, when the local file exists
\* and its tracked version value(s) equal the reference's, asks nothing and
\* leaves the project unchanged, whatever else differs between the two
\* documents.
C14_EqualVersionsNoPrompt ==
    [][ ( /\ pc = "files"
          /\ idx <= Len(files_to_update)
          /\ files_to_update[idx] = PYPROJECT
          /\ VersionsEqual )
        => /\ answers' = <<>>
           /\ asker' = ""
           /\ response' = NoCall
           /\ project' = project
           /\ msg' = "is up-to-date"
           /\ pc' = "files"
           /\ idx' = idx + 1 ]_vars

\* a live run that has reported the versions as up-to-date although the
\* local document differs from the reference's in other keys
C14_Witness ==
    /\ pc = "files"
    /\ ~args.dryrun
    /\ idx > 1
    /\ files_to_update[idx - 1] = PYPROJECT
    /\ msg = "is up-to-date"
    /\ answers = <<>>
    /\ VersionsEqual
    /\ project.files[PYPROJECT] = project0.files[PYPROJECT]
    /\ Keys(toml_load(project.files[PYPROJECT].data))
          # Keys(toml_load(RefFile(script, mirror, PYPROJECT).data))

\* 'pyproject.toml' occurs in list l exactly once, as the last element
PyprojectLast(l) ==
    /\ Len(l) >= 1
    /\ l[Len(l)] = PYPROJECT
    /\ \A i \in 1..(Len(l) - 1) : l[i] # PYPROJECT

\* C15: the list the loop of main iterates holds 'pyproject.toml' exactly
\* once, as its last element: the fixed list of the metadata scripts, and the
\* list of update_file_list for every state of the template directory and
\* both values of the metadata and dry-run flags; so every whole file is
\* handled before the version fields are.
C15_PyprojectLast ==
    /\ pc \in {"files", "done", "killed"} => PyprojectLast(files_to_update)
    /\ pc = "failed" /\ history # <<>> => PyprojectLast(files_to_update)
    /\ script \in WorkflowScripts
         => \A m \in Mirrors \cup {mirror}, dry \in BOOLEAN, meta \in BOOLEAN :
               PyprojectLast(update_file_list(script,
                                 [args EXCEPT !.dryrun = dry, !.metadata = meta],
                                 m).files)
    /\ \A i \in 1..Len(history) :
          history[i].file = PYPROJECT => i = Len(history)

\* a live run of update_workflow.py with the metadata files in its list
\* that has handled every whole file and then pyproject.toml
C15_Witness ==
    /\ script = UW
    /\ ~args.dryrun
    /\ args.metadata
    /\ pc = "files"
    /\ Len(files_to_update) >= 4
    /\ Len(history) = Len(files_to_update)
    /\ history[Len(history)].file = PYPROJECT

\* the run was ended by the prompt error of a question about a file
PromptFailed ==
    /\ pc = "failed"
    /\ failure \in {"AttributeError", "RuntimeError"}
    /\ asker \in {"update_file", "update_pyproject_toml"}

\* what a failed prompt at file number idx leaves behind
NoRollback ==
    /\ Len(history) = idx
    /\ history[idx].ended = "failed"
    /\ msg # "UPDATE COMPLETED!"
    /\ \A i \in 1..Len(files_to_update) :
          LET f == files_to_update[i] IN
          IF i < idx
          THEN /\ history[i].file = f
               /\ history[i].ended \in {"applied", "skipped", "up-to-date"}
               /\ history[i].ended = "applied"
                     => project.files[f] = RefFile(script, mirror, f)
               /\ history[i].ended \in {"skipped", "up-to-date"}
                     => project.files[f] = project0.files[f]
          ELSE project.files[f] = project0.files[f]

\* C16: a failed prompt at the k-th file of the list ends the run without
\* rollback: an earlier file that was approved has the reference content,
\* an earlier file that was declined or identical has its content of the
\* start of the run, the k-th and the later files are as at the start, the
\* completion marker is not printed and the failed run takes no further
\* step.
C16_NoRollback ==
    /\ [](PromptFailed => NoRollback)
    /\ [][pc # "failed"]_vars

\* a run that applied one file, skipped another and failed at a later one
C16_Witness ==
    /\ PromptFailed
    /\ idx >= 3
    /\ \E i \in 1..(idx - 1) :
          /\ history[i].ended = "applied"
          /\ project.files[history[i].file] # project0.files[history[i].file]
    /\ \E i \in 1..(idx - 1) : history[i].ended = "skipped"

\* does file f of the list need a decision: a whole file that is missing or
\* differs from the reference's, a pyproject.toml that is missing or whose
\* version(s) differ
Differs(f) == IF f = PYPROJECT THEN ~VersionsEqual ELSE ~Identical(f)

\* the ways the handling of a file ends when the call returns
Terminal ==
    IF args.dryrun THEN {"up-to-date", "would be applied"}
    ELSE {"up-to-date", "applied", "skipped"}

\* the files handled so far are the first files of the list, in its order
InListOrder ==
    /\ Len(history) <= Len(files_to_update)
    /\ \A i \in 1..Len(history) : history[i].file = files_to_update[i]
    /\ \A i, j \in 1..Len(files_to_update) :
          i # j => files_to_update[i] # files_to_update[j]
    /\ pc = "files" => Len(history) = idx - 1
    /\ \A i \in 1..Len(history) :
          IF i = Len(history) /\ pc \in {"failed", "killed"}
          THEN history[i].ended \in {"failed", "killed"}
          ELSE history[i].ended \in Terminal

\* a step that handles a file handles the next file of the list, once
OneFileAStep ==
    history' # history
    => LET f == files_to_update[idx] IN
       /\ pc = "files"
       /\ history' = Append(history, [run |-> run, file |-> f,
                                      ended |-> history'[Len(history')].ended])
       /\ answers' # <<>> => /\ Differs(f)
                              /\ ~args.dryrun
                              /\ response'.reads = Len(answers')
                              /\ response'.ret \in {"True", "False", "raise"}
       /\ pc' = "files"
             => /\ idx' = idx + 1
                /\ ~Differs(f) => history'[idx].ended = "up-to-date"
                /\ history'[idx].ended = "up-to-date" => answers' = <<>>
                /\ history'[idx].ended \in {"applied", "skipped"} <=> answers' # <<>>
                /\ history'[idx].ended = "applied" <=> response'.ret = "True"
       /\ pc' # "files" => idx' = idx

\* C17: the loop of main handles the files one at a time in the order of
\* the list, each once: a step compares the next file, asks one question
\* only when the file is missing or differs, and the file ends up-to-date,
\* applied or skipped (reported only, in a dry run) before the next file is
\* looked at; what is recorded for a handled file is never changed or
\* repeated.
C17_OneAtATime ==
    /\ []InListOrder
    /\ [][OneFileAStep]_vars

\* a live run in which one file was up-to-date, one applied and one skipped
C17_Witness ==
    /\ pc = "files"
    /\ ~args.dryrun
    /\ \E i, j, k \in 1..Len(history) :
          /\ i < j
          /\ history[i].ended = "skipped"
          /\ history[j].ended = "applied"
          /\ history[k].ended = "up-to-date"

\* C19: when a live run has handled every file of the list, its next step
\* runs git checkout main in the mirror and then prints the completion
\* marker; the run completes without an exception whether the checkout
\* switched the mirror or failed, and the project is not touched.
C19_ResetBestEffort ==
    /\ [][ (pc = "files" /\ idx > Len(files_to_update) /\ ~args.dryrun)
           => /\ gitlog' = Append(gitlog, GitCmd("checkout", "mirror", "main"))
              /\ mirror' \in {mirror, [mirror EXCEPT !.rev = "main"]}
              /\ pc' = "done"
              /\ msg' = "UPDATE COMPLETED!"
              /\ failure' = ""
              /\ project' = project ]_vars
    /\ []( msg = "UPDATE COMPLETED!"
           => /\ pc = "done"
              /\ Len(history) = Len(files_to_update)
              /\ gitlog[Len(gitlog)] = GitCmd("checkout", "mirror", "main") )

\* a live run that printed the completion marker although the reset failed
\* and left the mirror at another revision than main
C19_Witness ==
    /\ pc = "done"
    /\ ~args.dryrun
    /\ msg = "UPDATE COMPLETED!"
    /\ failure = ""
    /\ mirror.kind = "git"
    /\ mirror.rev # "main"

\* C20: when a live run has completed, the mirror directory has been
\* removed (the scripts have no option to keep it).
C20_MirrorRemoved ==
    (pc = "done" /\ ~args.dryrun) => mirror.kind = "absent"

\* C18: synchronisation is idempotent: when a live run in which every
\* question was answered with yes has completed, a second run with the same
\* command line asks no question about a file, changes nothing in the
\* project and reports every file it handles as up-to-date.
C18_Idempotent ==
    (run = 2 /\ FirstRunAllYes)
    => /\ asker \notin {"update_file", "update_pyproject_toml"}
       /\ project = project0
       /\ \A i \in 1..Len(history) :
             history[i].run = 2 => history[i].ended = "up-to-date"


\* C21: in a live run that started without a mirror directory, clone
\* returns only with the mirror cloned and checked out at the requested
\* revision: while the files are listed, compared and copied the mirror is
\* at args.source, and a revision that does not exist fails the run first.
C21_FreshCloneAtSource ==
    (~args.dryrun /\ mirror0.kind = "absent" /\ pc \in {"list", "files", "killed"})
    => /\ mirror.kind = "git"
       /\ mirror.rev = args.source


\* C22: the step of the loop for a whole file that the reference does not
\* have fails the run with an error, asks nothing and changes nothing,
\* whether the local file exists or not, in dry-run and in normal mode.
C22_MissingReferenceFails ==
    [][ ( /\ pc = "files"
          /\ idx <= Len(files_to_update)
          /\ files_to_update[idx] # PYPROJECT
          /\ ~RefFile(script, mirror, files_to_update[idx]).exists )
        => /\ pc' = "failed"
           /\ failure' # ""
           /\ answers' = <<>>
           /\ project' = project ]_vars


\* the operator answered the confirmation question of main with no
MarkerDeclined ==
    /\ script \in WorkflowScripts
    /\ asker = "main"
    /\ response.ret = "False"

\* C26: in the workflow scripts, when the marker file is absent and the
\* operator answers the confirmation question with no, the run ends with an
\* error at that step and takes no further step: no git command has run,
\* the mirror and the project are as they were, no file was handled.
C26_DeclinedMarkerAborts ==
    /\ []( MarkerDeclined
           => /\ ~project0.files[MARKER].exists
              /\ pc = "failed"
              /\ failure \in {"NameError", "SystemExit"}
              /\ gitlog = <<>>
              /\ mirror = mirror0
              /\ project = project0
              /\ history = <<>>
              /\ files_to_update = <<>> )
    /\ [][~MarkerDeclined]_vars

\* a live run of update_workflow.py, with a mirror to pull and files to
\* copy, that was ended by the negative answer given at the second attempt
C26_Witness ==
    /\ MarkerDeclined
    /\ script = UW
    /\ ~args.dryrun
    /\ mirror.kind = "git"
    /\ Len(answers) = 2
    /\ pc = "failed"


\* C27: in update_workflow.py without the metadata switch the value of
\* cubi.metadata.version is neither compared nor overwritten: an approved
\* update leaves it as it was, and when only the metadata version differs
\* from the reference no question is asked.
C27_MetadataSwitch ==
    [][ ( /\ script = UW
          /\ ~args.metadata
          /\ pc = "files"
          /\ idx <= Len(files_to_update)
          /\ files_to_update[idx] = PYPROJECT
          /\ project.files[PYPROJECT].exists
          /\ RefFile(script, mirror, PYPROJECT).exists )
        => /\ RewritesPyproject => ~KeyChanges(MetadataKey)
           /\ ~KeyDiffers(WorkflowKey) => answers' = <<>> ]_vars


\* C29: in a live run of update_workflow.py, when the loop over the files
\* starts and while it runs, the project holds the parent directory of
\* every file of the list, also of a file below '.github'.
C29_ParentDirsCreated ==
    (script = UW /\ ~args.dryrun /\ pc = "files")
    => \A i \in 1..Len(files_to_update) :
          HasParent(script, args, project, files_to_update[i])


\* the place the external flag selects
Destination == IF args.external THEN "cubi" ELSE "project"

\* the metadata files are present at the place the external flag selects
PresentAtDestination(p) ==
    IF args.external THEN CUBI \in p.dirs /\ NotEmpty(p) ELSE NotEmpty(p)

\* C23: in update_template.py the external flag selects the destination:
\* with the flag the presence check looks at the subfolder cubi and the
\* initial clone goes into it, without the flag both use the project
\* directory itself.
C23_ExternalDestination ==
    (script = UT /\ pc # "main")
    => /\ PresentAtDestination(project0) <=> files_to_update # <<>>
       /\ ~PresentAtDestination(project0)
             => gitlog = << GitCmd("clone", Destination, Destination) >>

\* the whole files of the list that update_file was called for, in the
\* order of the calls
Compared ==
    SelectSeq(history, LAMBDA e : e.file # PYPROJECT /\ e.ended # "not compared")

\* C28: in the update branch of update_template.py, update_file is called
\* once for each of CITATION.md, LICENSE and .editorconfig, in that order,
\* also after an earlier file of the run was updated.
C28_EachFileCompared ==
    (script = UT /\ pc = "done" /\ files_to_update # <<>>)
    => /\ Len(Compared) = 3
       /\ Compared[1].file = CITATION
       /\ Compared[2].file = LICENSE
       /\ Compared[3].file = EDITORCONFIG

\* ------------------------------------------------------------ auto_git.py
\* git remote -v only reads the configuration
ReadsOnly(c) == c.cmd = "remote -v"

\* C24: in a dry run of auto_git.py the repository directory, its git
\* configuration and the rest of the filesystem stay as they were, and no
\* state-changing git command is executed, whatever the operation.
C24_DryRunChangesNothing ==
    (script = AG /\ args.dryrun)
    => /\ project = project0
       /\ \A i \in 1..Len(gitlog) : ReadsOnly(gitlog[i])

\* set_push_targets has been called in this run
PushTargetsInvoked ==
    \E i \in 1..Len(history) : history[i].by = "set_push_targets"

\* C25: when the operator did not pass --no-all-target, a run that gets
\* past the operation (clone, init or norm) has invoked set_push_targets.
C25_AllRemoteByDefault ==
    (script = AG /\ pc \in {"identity", "done"} /\ ~args.argv_no_all)
    => PushTargetsInvoked

\* the remotes norm_git looks at: all but the one named all
Normed(remotes) == DOMAIN remotes \ {"all"}

\* the canonical name of the host of a remote
Canonical(remotes, n) == KNOWN_REMOTES[remotes[n].url.host].name

\* the number of rename commands norm_git has issued for a remote
Renames(h, n) ==
    Cardinality({ i \in 1..Len(h) : /\ h[i].by = "norm_git"
                                    /\ h[i].cmd.cmd = "remote rename"
                                    /\ h[i].cmd.arg[1] = n })

\* C30: norm_git over a repository with at least one remote besides all,
\* every URL on a known host, does not fail, returns a remote of the highest
\* priority among the configured ones, and issues exactly one rename, to the
\* canonical name, for each remote that is not named canonically, and none
\* for the others.
C30_NormPrimary ==
    [][ (/\ script = AG /\ pc = "main" /\ args.operation = "norm"
         /\ project.dotgit
         /\ Normed(project.remotes) # {}
         /\ \A n \in Normed(project.remotes) :
               ParsesGitUrl(project.remotes[n].url))
        => /\ pc' = "push"
           /\ failure' = ""
           /\ \E n \in Normed(project.remotes) :
                 response' = parse_git_url(project.remotes[n].url)
           /\ \A n \in Normed(project.remotes) :
                 /\ response'.priority >=
                       KNOWN_REMOTES[project.remotes[n].url.host].priority
                 /\ Renames(history', n) =
                       IF Canonical(project.remotes, n) # n THEN 1 ELSE 0
                 /\ \A i \in 1..Len(history') :
                       (history'[i].cmd.cmd = "remote rename"
                          /\ history'[i].cmd.arg[1] = n)
                       => history'[i].cmd.arg[2] = Canonical(project.remotes, n)
       ]_vars

====
